---- MODULE Spec2Model ----
(***************************************************************************)
(* The reconciliation and snapshot engine of polymarket-dashboard:         *)
(* TrackerService (app/services/tracker.py), the feed client              *)
(* (app/services/polymarket.py), the scheduled pass (app/tasks/           *)
(* scheduler.py) and the manual trigger (app/routers/portfolio.py).        *)
(*                                                                         *)
(* Numbers.  Decimal amounts are integers in fixed units: prices in ticks  *)
(* of 1/PriceOne, shares in units of 0.005 share, values and P&L in the    *)
(* product of the two.                                                     *)
(* A nullable column is a sequence: <<>> is NULL/None and <<v>> holds v.   *)
(* A nullable string column holds the string "None" for NULL.              *)
(***************************************************************************)
EXTENDS Integers, Sequences, FiniteSets, TLC

VARIABLES
    positions,            \* table positions: id -> row
    markets,              \* table markets: id -> row (never written here)
    portfolio_snapshots,  \* table portfolio_snapshots, in insertion order
    position_snapshots,   \* table position_snapshots, in insertion order
    now,                  \* the wall clock, datetime.now(timezone.utc)
    pc,                   \* where the scheduled pass poll_portfolio stands
    passes,               \* number of passes started so far
    hist,                 \* history of the latest pass (not program state)
    runs,                 \* the passes of the interleaved model, in start order
    sched                 \* the scheduler's job store and counters

vars == <<positions, markets, portfolio_snapshots, position_snapshots,
          now, pc, passes, hist, runs, sched>>

-----------------------------------------------------------------------------
(* Bounds and domains *)

\* Spec draws one pass over every ledger and feed below; SeqSpec draws runs
\* of MaxSeqPasses passes over the smaller sets marked Seq.
MaxPasses == 1
MaxSeqPasses == 2
MaxFeed == 2
MaxSeqFeed == 1
MaxShares == 2

\* Decimal("1.0"), the payout per share of a winning position, in ticks.
PriceOne == 4

None == <<>>
Some(v) == <<v>>
NoneStr == "None"

PositionIds == {1, 2}
MarketIds == {1}
TokenYes == "tok_yes"
TokenNo == "tok_no"
EntryPrices == {1}
LastPrices == {None, Some(2)}
FeedPrices == {3}
BookPrices == {None, Some(2)}
StartTimes == {2}
EndDates == {None, Some(0), Some(9)}
SeqEndDates == {None, Some(3)}
ResolvedAts == {None, Some(1)}
Outcomes == {NoneStr, "yes", "no", "YES"}

-----------------------------------------------------------------------------
(* Small helpers standing for Python built-ins *)

\* str.lower() on the strings that occur as direction or resolution_outcome.
Lower(s) ==
    CASE s = "YES" -> "yes"
      [] s = "Yes" -> "yes"
      [] s = "NO" -> "no"
      [] s = "No" -> "no"
      [] OTHER -> s

\* Python's `x or Decimal("0")` on a nullable numeric.
OrZero(x) == IF x = None \/ x = Some(0) THEN 0 ELSE x[1]

\* Python truthiness of a token id string: None and "" are falsy.
Truthy(s) == s # NoneStr /\ s # ""

Range(f) == {f[x] : x \in DOMAIN f}

Perms(S) == {f \in [1..Cardinality(S) -> S] : Range(f) = S}

-----------------------------------------------------------------------------
(* Feed client: PolymarketClient.get_wallet_balance *)

\* One processed feed record: value = size * current_price.
ProcessedPosition(pos) ==
    [token_id |-> pos.asset,
     size |-> pos.size,
     current_price |-> pos.currentPrice,
     value |-> pos.size * pos.currentPrice]

RECURSIVE SumValues(_)
SumValues(ps) ==
    IF ps = <<>> THEN 0 ELSE ps[1].value + SumValues(Tail(ps))

\* A wallet with a USDC balance of its own.
get_wallet_balance_with_cash(feed) ==
    LET processed == [i \in 1..Len(feed) |-> ProcessedPosition(feed[i])]
    IN [usdc_balance |-> 1,
        total_position_value |-> SumValues(processed),
        positions |-> processed]

\* get_wallet_balance: the processed records, their total value, and a
\* USDC balance fixed at 0.
get_wallet_balance(feed) ==
    LET processed == [i \in 1..Len(feed) |-> ProcessedPosition(feed[i])]
    IN [usdc_balance |-> 0,
        total_position_value |-> SumValues(processed),
        positions |-> processed]

-----------------------------------------------------------------------------
(* Reconciler: TrackerService._sync_positions *)

\* The SELECT without its WHERE clause.
AllRows(pos) == DOMAIN pos

\* WHERE Position.status == "open"
OpenRows(pos) == {id \in DOMAIN pos : pos[id].status = "open"}

\* The outer join: the market row of a position, None when it has none.
MarketOf(p, mkts) ==
    IF p.market_id # None /\ p.market_id[1] \in DOMAIN mkts
    THEN Some(mkts[p.market_id[1]]) ELSE None

\* The matching key: the outcome token selected by the direction.
TokenOf(p, market) ==
    IF p.direction = "yes" THEN market.clob_token_id_yes
    ELSE market.clob_token_id_no

\* db_positions: token_id -> position id, filled in the order of the result
\* rows, so a later row with the same token replaces an earlier one.  Rows
\* without a market are left out; a NULL token is a key like any other.
BuildDbPositions(rows, pos, mkts) ==
    LET withMarket == {i \in 1..Len(rows) : MarketOf(pos[rows[i]], mkts) # None}
        tok(i) == TokenOf(pos[rows[i]], MarketOf(pos[rows[i]], mkts)[1])
        keys == {tok(i) : i \in withMarket}
        lastRow(k) == CHOOSE i \in withMarket :
                         /\ tok(i) = k
                         /\ \A j \in withMarket : tok(j) = k => j <= i
    IN [k \in keys |-> rows[lastRow(k)]]

\* A resize that forgets the cost basis.
RescaleKeepsCost(cost_basis, api_shares, old_shares) == cost_basis

\* position.cost_basis * (api_shares / old_shares).  The quotient is exact
\* on every ledger drawn here: cost_basis is entry_price * shares.
Rescale(cost_basis, api_shares, old_shares) ==
    (cost_basis * api_shares) \div old_shares

\* The body of the loop over api_positions for one feed record.
SyncOne(s, pos_data, db, t) ==
    IF ~Truthy(pos_data.token_id) \/ pos_data.token_id \notin DOMAIN db
    THEN s
    ELSE
      LET id == db[pos_data.token_id]
          p == s.positions[id]
          api_shares == pos_data.size
          resized == api_shares # p.shares /\ api_shares > 0
          cost == IF resized /\ p.shares > 0
                  THEN Rescale(p.cost_basis, api_shares, p.shares)
                  ELSE p.cost_basis
          shares == IF resized THEN api_shares ELSE p.shares
      IN [positions |->
            [s.positions EXCEPT ![id] =
               [p EXCEPT !.shares = shares,
                         !.cost_basis = cost,
                         !.current_price = Some(pos_data.current_price),
                         !.current_value = Some(pos_data.value),
                         !.unrealized_pnl = Some(pos_data.value - cost)]],
          snapshots |->
            Append(s.snapshots,
                   [position_id |-> id, timestamp |-> t,
                    price |-> pos_data.current_price,
                    value |-> pos_data.value]),
          found |-> s.found \cup {pos_data.token_id}]

RECURSIVE SyncMatched(_, _, _, _)
SyncMatched(s, api_positions, db, t) ==
    IF api_positions = <<>> THEN s
    ELSE SyncMatched(SyncOne(s, api_positions[1], db, t),
                     Tail(api_positions), db, t)

\* Lines 154-165: the market counts as resolved when resolved_at is set or
\* end_date has passed.
MarketResolved(market, t) ==
    \/ market.resolved_at # None
    \/ market.end_date # None /\ market.end_date[1] <= t

\* Lines 155-165: the local resolution_outcome.  It is read from the market
\* only in the resolved_at branch and stays None in the end_date branch.
ResolutionOutcome(market) ==
    IF market.resolved_at # None THEN market.resolution_outcome ELSE NoneStr

\* Lines 177-178: `won` as computed for the payout.
PayoutWon(direction, outcome) ==
    \/ direction = "yes" /\ outcome = "yes"
    \/ direction = "no" /\ outcome = "no"

\* Lines 192-194: `won` as computed for the exit price.
ExitWon(direction, outcome) == Lower(outcome) = Lower(direction)

\* Lines 176-185: payout of a position on a resolved market.
Payout(p, outcome) ==
    IF outcome # NoneStr
    THEN IF PayoutWon(p.direction, outcome) THEN p.shares * PriceOne ELSE 0
    ELSE p.shares * OrZero(p.current_price)

\* Lines 190-198: exit price of a position on a resolved market.
ResolvedExitPrice(p, outcome) ==
    IF outcome # NoneStr
    THEN IF ExitWon(p.direction, outcome) THEN PriceOne ELSE 0
    ELSE OrZero(p.current_price)

\* Line 202: market.resolved_at or now.
ResolvedExitDate(market, t) ==
    IF market.resolved_at # None THEN market.resolved_at ELSE Some(t)

\* Lines 167-206: close a position whose market has resolved.
CloseResolved(p, market, t) ==
    LET outcome == ResolutionOutcome(market)
    IN [p EXCEPT !.status = "closed",
                 !.exit_date = ResolvedExitDate(market, t),
                 !.exit_price = Some(ResolvedExitPrice(p, outcome)),
                 !.realized_pnl = Some(Payout(p, outcome) - p.cost_basis),
                 !.current_value = Some(0),
                 !.unrealized_pnl = Some(0)]

ManualExitNote == "Auto-detected: position disappeared from API (manual exit)"

\* A manual exit that leaves the last valuation on the closed row.
CloseManualKeepsValue(p, t) ==
    LET exit_price == OrZero(p.current_price)
    IN [p EXCEPT !.status = "closed",
                 !.exit_date = Some(t),
                 !.exit_price = Some(exit_price),
                 !.realized_pnl = Some(p.shares * exit_price - p.cost_basis),
                 !.exit_reasoning = ManualExitNote]

\* Lines 211-228: close a position that left the feed while its market is
\* still active.
CloseManual(p, t) ==
    LET exit_price == OrZero(p.current_price)
    IN [p EXCEPT !.status = "closed",
                 !.exit_date = Some(t),
                 !.exit_price = Some(exit_price),
                 !.realized_pnl = Some(p.shares * exit_price - p.cost_basis),
                 !.current_value = Some(0),
                 !.unrealized_pnl = Some(0),
                 !.exit_reasoning = ManualExitNote]

\* A closure that also retires the thesis of the position.
ClosePositionRetiresThesis(p, market, t) ==
    [(IF MarketResolved(market, t) THEN CloseResolved(p, market, t)
      ELSE CloseManual(p, t)) EXCEPT !.thesis_status = "closed"]

\* Lines 149-233: one iteration of the loop over db_positions.items().
ClosePosition(p, market, t) ==
    IF MarketResolved(market, t) THEN CloseResolved(p, market, t)
    ELSE CloseManual(p, t)

\* Lines 147-151: the positions of db_positions whose token was not found.
NotFound(db, found) == {db[k] : k \in DOMAIN db \ found}

\* _sync_positions on the rows in result order: the positions after it, the
\* PositionSnapshot rows it adds, and what it matched and closed.
sync_positions(api_positions, rows, pos, mkts, t) ==
    LET db == BuildDbPositions(rows, pos, mkts)
        m == SyncMatched([positions |-> pos, snapshots |-> <<>>, found |-> {}],
                         api_positions, db, t)
        gone == NotFound(db, m.found)
    IN [positions |->
          [id \in DOMAIN pos |->
             IF id \in gone
             THEN ClosePosition(m.positions[id],
                                MarketOf(pos[id], mkts)[1], t)
             ELSE m.positions[id]],
        snapshots |-> m.snapshots,
        db |-> db,
        found |-> m.found,
        closed |-> gone]

-----------------------------------------------------------------------------
(* TrackerService.take_portfolio_snapshot and update_position_prices *)

\* ORDER BY timestamp DESC LIMIT 1
LatestSnapshot(snaps) ==
    IF snaps = <<>> THEN None
    ELSE Some(snaps[CHOOSE i \in 1..Len(snaps) :
                      \A j \in 1..Len(snaps) :
                         snaps[j].timestamp <= snaps[i].timestamp])

\* A snapshot row whose daily P&L does not test the previous total_value.
NewPortfolioSnapshotUnguarded(wallet_data, prev_snapshot, t) ==
    LET total_value == wallet_data.usdc_balance
                          + wallet_data.total_position_value
        daily_pnl == total_value - prev_snapshot[1].total_value
    IN [timestamp |-> t,
        cash_balance |-> wallet_data.usdc_balance,
        position_value |-> wallet_data.total_position_value,
        total_value |-> total_value,
        daily_pnl |-> IF prev_snapshot # None THEN Some(daily_pnl) ELSE None,
        daily_pnl_pct |->
            IF prev_snapshot # None /\ prev_snapshot[1].total_value > 0
            THEN Some([num |-> daily_pnl * 100,
                       den |-> prev_snapshot[1].total_value])
            ELSE None,
        granularity |-> "minute"]

\* Lines 26-58: the PortfolioSnapshot row of a pass.  daily_pnl_pct is kept
\* as the exact ratio (daily_pnl * 100) / previous total.
NewPortfolioSnapshot(wallet_data, prev_snapshot, t) ==
    LET cash_balance == wallet_data.usdc_balance
        position_value == wallet_data.total_position_value
        total_value == cash_balance + position_value
        has_prev == prev_snapshot # None /\ prev_snapshot[1].total_value # 0
        daily_pnl == total_value - prev_snapshot[1].total_value
    IN [timestamp |-> t,
        cash_balance |-> cash_balance,
        position_value |-> position_value,
        total_value |-> total_value,
        daily_pnl |-> IF has_prev THEN Some(daily_pnl) ELSE None,
        daily_pnl_pct |->
            IF has_prev /\ prev_snapshot[1].total_value > 0
            THEN Some([num |-> daily_pnl * 100,
                       den |-> prev_snapshot[1].total_value])
            ELSE None,
        granularity |-> "minute"]

\* take_portfolio_snapshot up to its commit: the tables as the transaction
\* leaves them when the commit succeeds.
take_portfolio_snapshot(feed, rows, pos, mkts, psnaps, possnaps, t) ==
    LET wallet_data == get_wallet_balance(feed)
        snapshot == NewPortfolioSnapshot(wallet_data, LatestSnapshot(psnaps), t)
        sync == sync_positions(wallet_data.positions, rows, pos, mkts, t)
    IN [positions |-> sync.positions,
        portfolio_snapshots |-> Append(psnaps, snapshot),
        position_snapshots |-> possnaps \o sync.snapshots,
        snapshots |-> sync.snapshots,
        db |-> sync.db,
        found |-> sync.found,
        closed |-> sync.closed]

\* Lines 240-253: the open positions joined to their market whose token id
\* for the direction is set; these are the ones a price is looked up for.
PricedRows(pos, mkts) ==
    {id \in OpenRows(pos) :
        /\ MarketOf(pos[id], mkts) # None
        /\ Truthy(TokenOf(pos[id], MarketOf(pos[id], mkts)[1]))}

\* Lines 255-260: a price that was found is written with the value and
\* unrealized P&L derived from it; a lookup without a price changes nothing.
ApplyPrice(p, price) ==
    IF price = None THEN p
    ELSE [p EXCEPT !.current_price = price,
                   !.current_value = Some(p.shares * price[1]),
                   !.unrealized_pnl = Some(p.shares * price[1] - p.cost_basis)]

\* update_position_prices that stops at the first lookup without a price:
\* the positions after it keep their fields.
update_position_prices_until_failure(pos, mkts, prices) ==
    [id \in DOMAIN pos |->
        IF /\ id \in PricedRows(pos, mkts)
           /\ \A k \in PricedRows(pos, mkts) : k <= id => prices[k] # None
        THEN ApplyPrice(pos[id], prices[id])
        ELSE pos[id]]

\* update_position_prices, given what get_market_price returns per position.
update_position_prices(pos, mkts, prices) ==
    [id \in DOMAIN pos |->
        IF id \in PricedRows(pos, mkts) THEN ApplyPrice(pos[id], prices[id])
        ELSE pos[id]]

-----------------------------------------------------------------------------
(* Initial ledgers *)

Row(market_id, direction, shares, entry_price, last_price, status) ==
    [market_id |-> market_id,
     direction |-> direction,
     shares |-> shares,
     entry_price |-> entry_price,
     cost_basis |-> shares * entry_price,
     current_price |-> last_price,
     current_value |->
        IF last_price = None THEN None ELSE Some(shares * last_price[1]),
     unrealized_pnl |->
        IF last_price = None THEN None
        ELSE Some(shares * last_price[1] - shares * entry_price),
     realized_pnl |-> None,
     status |-> status,
     thesis_status |-> "intact",
     exit_price |-> None,
     exit_date |-> None,
     exit_reasoning |-> NoneStr]

\* Open positions on a market, in every combination the reconciler reads.
OpenLedgerRows ==
    {Row(Some(m), d, sh, e, lp, "open") :
        m \in MarketIds, d \in {"yes", "no"}, sh \in 0..MaxShares,
        e \in EntryPrices, lp \in LastPrices}

\* Rows the reconciler must leave alone: an open position without a market
\* row, a pending position, and one an operator closed earlier.
OtherLedgerRows ==
    LET e == CHOOSE x \in EntryPrices : TRUE
        m == CHOOSE x \in MarketIds : TRUE
    IN {Row(None, "yes", MaxShares, e, None, "open"),
        Row(Some(m), "yes", MaxShares, e, None, "pending"),
        [Row(Some(m), "yes", MaxShares, e, None, "closed")
            EXCEPT !.exit_price = Some(0), !.exit_date = Some(0),
                   !.realized_pnl = Some(0 - MaxShares * e),
                   !.current_value = Some(0), !.unrealized_pnl = Some(0),
                   !.exit_reasoning = "operator"]}

LedgerRows == OpenLedgerRows \cup OtherLedgerRows

\* The second position: beside the first on either token of the market with
\* a holding of its own, or one of the rows the reconciler leaves alone.
SiblingRows ==
    {r \in OpenLedgerRows : r.shares = MaxShares /\ r.current_price # None}
        \cup OtherLedgerRows

Ledgers ==
    {[id \in PositionIds |-> IF id = 1 THEN a ELSE b] :
        a \in LedgerRows, b \in SiblingRows}

MarketRows ==
    [clob_token_id_yes : {TokenYes, NoneStr},
     clob_token_id_no : {TokenNo},
     end_date : EndDates,
     resolved_at : ResolvedAts,
     resolution_outcome : Outcomes]

SeqMarketRows ==
    [clob_token_id_yes : {TokenYes},
     clob_token_id_no : {TokenNo},
     end_date : SeqEndDates,
     resolved_at : ResolvedAts,
     resolution_outcome : {NoneStr, "yes"}]

NoPass == [op |-> "none", path |-> "none", ok |-> TRUE, feed |-> <<>>,
           prices |-> <<>>, prices_ok |-> TRUE]

NoHistory ==
    [op |-> "none", path |-> "none", ok |-> TRUE, done |-> TRUE,
     before |-> <<>>, feed |-> <<>>, db |-> <<>>, found |-> {},
     at |-> 0, closed |-> {}, closed_now |-> {}, prices |-> <<>>,
     prices_ok |-> TRUE, snapshots |-> <<>>, prev |-> NoPass]

\* The scheduler after start_scheduler: no instance of the job running.
\* ticks counts the wake-ups that found the slot free, started the calls of
\* poll_portfolio, dropped the wake-ups that found the slot taken, manual
\* the requests to POST /portfolio/snapshot.
NoJobs ==
    [instances |-> 0, run_times |-> 0, ticks |-> 0, started |-> 0,
     dropped |-> 0, manual |-> 0]

InitWith(market_rows) ==
    /\ positions \in Ledgers
    /\ markets \in [MarketIds -> market_rows]
    /\ portfolio_snapshots = <<>>
    /\ position_snapshots = <<>>
    /\ now \in StartTimes
    /\ pc = "idle"
    /\ passes = 0
    /\ hist = NoHistory
    /\ runs = <<>>
    /\ sched = NoJobs

Init == InitWith(MarketRows)

SeqInit == InitWith(SeqMarketRows)

-----------------------------------------------------------------------------
(* Inputs of a pass *)

FeedRecords ==
    [asset : {TokenYes, TokenNo}, size : 0..MaxShares, currentPrice : FeedPrices]

RECURSIVE SeqsUpTo(_, _)
SeqsUpTo(S, n) ==
    IF n = 0 THEN {<<>>}
    ELSE LET shorter == SeqsUpTo(S, n - 1)
         IN shorter \cup {Append(q, x) : q \in shorter, x \in S}

\* What GET /positions can return: up to MaxFeed records, any order, the
\* same token possibly more than once.
Feeds == SeqsUpTo(FeedRecords, MaxFeed)

SeqFeeds == SeqsUpTo(FeedRecords, MaxSeqFeed)

\* The order in which the SELECT without ORDER BY returns the open rows.
RowOrders(pos) == Perms(OpenRows(pos))

-----------------------------------------------------------------------------
(* Actions *)

\* The history of a pass through take_portfolio_snapshot.
SnapshotHistory(path, ok, feed, r, done) ==
    [op |-> "take_portfolio_snapshot", path |-> path, ok |-> ok,
     done |-> done, before |-> positions, feed |-> feed,
     db |-> r.db, found |-> r.found, at |-> now,
     closed |-> IF ok THEN hist.closed \cup r.closed ELSE hist.closed,
     closed_now |-> IF ok THEN r.closed ELSE {},
     prices |-> <<>>, prices_ok |-> TRUE,
     snapshots |-> IF ok THEN r.snapshots ELSE <<>>,
     prev |-> [op |-> hist.op, path |-> hist.path, ok |-> hist.ok,
               feed |-> hist.feed, prices |-> hist.prices,
               prices_ok |-> hist.prices_ok]]

\* A pass without the rollback: the writes of a failed pass stay in the
\* session and reach the tables.
RunSnapshotNoRollback(feed, rows, commit_ok, path, done) ==
    LET r == take_portfolio_snapshot(feed, rows, positions, markets,
                                     portfolio_snapshots, position_snapshots,
                                     now)
    IN /\ positions' = r.positions
       /\ portfolio_snapshots' = r.portfolio_snapshots
       /\ position_snapshots' = r.position_snapshots
       /\ hist' = SnapshotHistory(path, commit_ok, feed, r, done)
       /\ now' = now + 1
       /\ passes' = passes + 1
       /\ UNCHANGED <<markets, runs, sched>>

\* take_portfolio_snapshot as one transaction: all its writes on commit,
\* none of them after the rollback of a failed commit.
RunSnapshot(feed, rows, commit_ok, path, done) ==
    LET r == take_portfolio_snapshot(feed, rows, positions, markets,
                                     portfolio_snapshots, position_snapshots,
                                     now)
    IN /\ positions' = IF commit_ok THEN r.positions ELSE positions
       /\ portfolio_snapshots' =
             IF commit_ok THEN r.portfolio_snapshots ELSE portfolio_snapshots
       /\ position_snapshots' =
             IF commit_ok THEN r.position_snapshots ELSE position_snapshots
       /\ hist' = SnapshotHistory(path, commit_ok, feed, r, done)
       /\ now' = now + 1
       /\ passes' = passes + 1
       /\ UNCHANGED <<markets, runs, sched>>

\* POST /portfolio/snapshot (routers/portfolio.py take_snapshot).
ManualTrigger(feed, rows, cap) ==
    /\ pc = "idle"
    /\ passes < cap
    /\ RunSnapshot(feed, rows, TRUE, "manual", TRUE)
    /\ UNCHANGED pc

\* The same request when the commit raises: rollback, and the exception
\* leaves the handler.
ManualTriggerFails(cap) ==
    /\ pc = "idle"
    /\ passes < cap
    /\ RunSnapshot(<<>>, <<>>, FALSE, "manual", TRUE)
    /\ UNCHANGED pc

\* poll_portfolio, first stage: take_portfolio_snapshot; the price update
\* follows.
PollSnapshot(feed, rows, cap) ==
    /\ pc = "idle"
    /\ passes < cap
    /\ RunSnapshot(feed, rows, TRUE, "scheduled", FALSE)
    /\ pc' = "prices"

\* poll_portfolio when take_portfolio_snapshot raises: the except clause
\* logs it and the pass ends without the price update.
PollSnapshotFails(cap) ==
    /\ pc = "idle"
    /\ passes < cap
    /\ RunSnapshot(<<>>, <<>>, FALSE, "scheduled", TRUE)
    /\ UNCHANGED pc

\* poll_portfolio, second stage: update_position_prices.
PollPrices(prices) ==
    /\ pc = "prices"
    /\ positions' = update_position_prices(positions, markets, prices)
    /\ hist' = [hist EXCEPT !.op = "update_position_prices",
                            !.done = TRUE, !.prices = prices]
    /\ pc' = "idle"
    /\ now' = now + 1
    /\ UNCHANGED <<markets, portfolio_snapshots, position_snapshots, passes,
                   runs, sched>>

\* The second stage when its commit raises: the price writes are lost with
\* the session, the except clause of poll_portfolio logs it.
PollPricesFails ==
    /\ pc = "prices"
    /\ hist' = [hist EXCEPT !.op = "update_position_prices",
                            !.prices_ok = FALSE, !.done = TRUE]
    /\ pc' = "idle"
    /\ now' = now + 1
    /\ UNCHANGED <<positions, markets, portfolio_snapshots,
                   position_snapshots, passes, runs, sched>>

Next ==
    \/ \E feed \in Feeds, rows \in RowOrders(positions) :
          ManualTrigger(feed, rows, MaxPasses)
    \/ ManualTriggerFails(MaxPasses)
    \/ \E feed \in Feeds, rows \in RowOrders(positions) :
          PollSnapshot(feed, rows, MaxPasses)
    \/ PollSnapshotFails(MaxPasses)
    \/ \E prices \in [PricedRows(positions, markets) -> BookPrices] :
          PollPrices(prices)
    \/ PollPricesFails

SeqNext ==
    \/ \E feed \in SeqFeeds, rows \in RowOrders(positions) :
          ManualTrigger(feed, rows, MaxSeqPasses)
    \/ ManualTriggerFails(MaxSeqPasses)
    \/ \E feed \in SeqFeeds, rows \in RowOrders(positions) :
          PollSnapshot(feed, rows, MaxSeqPasses)
    \/ PollSnapshotFails(MaxSeqPasses)
    \/ \E prices \in [PricedRows(positions, markets) -> BookPrices] :
          PollPrices(prices)
    \/ PollPricesFails

\* One pass over every initial ledger and feed.
Spec == Init /\ [][Next]_vars

\* Runs of several non-overlapping passes.
SeqSpec == SeqInit /\ [][SeqNext]_vars

-----------------------------------------------------------------------------
(* Vocabulary of the properties *)

\* The latest pass committed its take_portfolio_snapshot.
PassRan == hist.op # "none" /\ hist.ok

\* The latest pass has ended.
PassEnded == PassRan /\ hist.done

FeedTokens == {hist.feed[i].asset : i \in 1..Len(hist.feed)}

Before(id) == hist.before[id]

MarketBefore(id) == MarketOf(Before(id), markets)

\* Open before the pass, with a market that has a token for its direction,
\* and that token not in the feed.
LedgerOnly(id) ==
    /\ PassRan
    /\ Before(id).status = "open"
    /\ MarketBefore(id) # None
    /\ Truthy(TokenOf(Before(id), MarketBefore(id)[1]))
    /\ TokenOf(Before(id), MarketBefore(id)[1]) \notin FeedTokens

\* The position the pass matched against a feed record.
Matched(id) ==
    /\ PassRan
    /\ \E k \in hist.found : hist.db[k] = id

\* The feed record of a token: the last one the feed lists for it.
FeedRecord(k) ==
    hist.feed[CHOOSE i \in 1..Len(hist.feed) :
                 /\ hist.feed[i].asset = k
                 /\ \A j \in 1..Len(hist.feed) :
                       hist.feed[j].asset = k => j <= i]

MatchedRecord(id) == FeedRecord(CHOOSE k \in hist.found : hist.db[k] = id)

-----------------------------------------------------------------------------
(* Properties *)

\* C1: after any run of non-overlapping passes, every position a pass has
\* closed has current_value 0, unrealized_pnl 0 and a realized_pnl, an
\* exit_price and an exit_date that are not null.
C1_ClosedIsSettled ==
    \A id \in hist.closed :
        /\ positions[id].current_value = Some(0)
        /\ positions[id].unrealized_pnl = Some(0)
        /\ positions[id].realized_pnl # None
        /\ positions[id].exit_price # None
        /\ positions[id].exit_date # None

\* C1 witness: a position closed by the first pass, after a whole
\* scheduled pass (snapshot and price update) has run over the ledger again.
C1_Witness ==
    /\ hist.op = "update_position_prices"
    /\ \E id \in hist.closed \ hist.closed_now :
          Before(id).status = "closed"

\* C2: closure is final: a step of any pass leaves a closed position closed
\* and does not rewrite its exit_price, exit_date, realized_pnl or
\* exit_reasoning.
C2_ClosureIsFinal ==
    [][\A id \in PositionIds :
          positions[id].status = "closed" =>
            /\ positions'[id].status = "closed"
            /\ positions'[id].exit_price = positions[id].exit_price
            /\ positions'[id].exit_date = positions[id].exit_date
            /\ positions'[id].realized_pnl = positions[id].realized_pnl
            /\ positions'[id].exit_reasoning = positions[id].exit_reasoning]_vars

\* C2 witness: a later pass has committed over a position an earlier pass
\* closed, with that position's token in the later pass's feed.
C2_Witness ==
    /\ hist.op = "take_portfolio_snapshot"
    /\ hist.ok
    /\ \E id \in hist.closed \ hist.closed_now :
          /\ MarketBefore(id) # None
          /\ TokenOf(Before(id), MarketBefore(id)[1]) \in FeedTokens

\* C3: after a successful pass every position that was open before it, has
\* a market and whose token is not in the feed is closed, also when several
\* open positions share a market and direction.
C3_LedgerOnlyIsClosed ==
    \A id \in PositionIds :
        LedgerOnly(id) => positions[id].status = "closed"

\* C4: a position closed on a market with resolved_at set and a known
\* outcome has exit_price 1 and realized_pnl = shares - cost_basis when the
\* outcome equals the direction ignoring case, else exit_price 0 and
\* realized_pnl = -cost_basis.
C4_ResolvedPayout ==
    \A id \in PositionIds :
        (/\ LedgerOnly(id)
         /\ id \in hist.closed_now
         /\ MarketBefore(id)[1].resolved_at # None
         /\ MarketBefore(id)[1].resolution_outcome # NoneStr)
        =>
        LET won == Lower(MarketBefore(id)[1].resolution_outcome)
                      = Before(id).direction
        IN /\ positions[id].exit_price = Some(IF won THEN PriceOne ELSE 0)
           /\ positions[id].realized_pnl =
                 Some((IF won THEN Before(id).shares * PriceOne ELSE 0)
                      - Before(id).cost_basis)

\* C5: a ledger-only position whose market has resolved_at unset and
\* end_date unset or in the future is closed as a manual exit: closed,
\* exit_price the last current_price, realized_pnl = shares * exit_price -
\* cost_basis, exit_date the time of the pass, the auto-detection note,
\* current_value 0 and unrealized_pnl 0.
C5_ManualExit ==
    \A id \in PositionIds :
        (/\ LedgerOnly(id)
         /\ MarketBefore(id)[1].resolved_at = None
         /\ \/ MarketBefore(id)[1].end_date = None
            \/ MarketBefore(id)[1].end_date[1] > hist.at)
        =>
        LET last_price == OrZero(Before(id).current_price)
        IN /\ positions[id].status = "closed"
           /\ positions[id].exit_price = Some(last_price)
           /\ positions[id].realized_pnl =
                 Some(Before(id).shares * last_price - Before(id).cost_basis)
           /\ positions[id].exit_date = Some(hist.at)
           /\ positions[id].exit_reasoning = ManualExitNote
           /\ positions[id].current_value = Some(0)
           /\ positions[id].unrealized_pnl = Some(0)

\* C6: a ledger-only position on a resolved market whose outcome is unknown
\* is closed with exit_price the last current_price (0 when never set) and
\* realized_pnl = shares * current_price - cost_basis.
C6_UnknownOutcome ==
    \A id \in PositionIds :
        (/\ LedgerOnly(id)
         /\ MarketResolved(MarketBefore(id)[1], hist.at)
         /\ MarketBefore(id)[1].resolution_outcome = NoneStr)
        =>
        LET last_price == OrZero(Before(id).current_price)
        IN /\ positions[id].status = "closed"
           /\ positions[id].exit_price = Some(last_price)
           /\ positions[id].realized_pnl =
                 Some(Before(id).shares * last_price - Before(id).cost_basis)

\* C7: a position closed on a market with resolved_at unset, end_date in the
\* past and a known outcome gets the outcome-based payout: exit_price 1 and
\* realized_pnl = shares - cost_basis if the outcome equals the direction,
\* else exit_price 0 and realized_pnl = -cost_basis.
C7_EndDatePayout ==
    \A id \in PositionIds :
        (/\ LedgerOnly(id)
         /\ id \in hist.closed_now
         /\ MarketBefore(id)[1].resolved_at = None
         /\ MarketBefore(id)[1].end_date # None
         /\ MarketBefore(id)[1].end_date[1] < hist.at
         /\ MarketBefore(id)[1].resolution_outcome # NoneStr)
        =>
        LET won == Lower(MarketBefore(id)[1].resolution_outcome)
                      = Before(id).direction
        IN /\ positions[id].exit_price = Some(IF won THEN PriceOne ELSE 0)
           /\ positions[id].realized_pnl =
                 Some((IF won THEN Before(id).shares * PriceOne ELSE 0)
                      - Before(id).cost_basis)

\* C8: a position closed as resolved has exit_date = resolved_at if set,
\* otherwise end_date, and the time of the pass only when both are missing.
C8_ResolvedExitDate ==
    \A id \in PositionIds :
        (/\ LedgerOnly(id)
         /\ id \in hist.closed_now
         /\ MarketResolved(MarketBefore(id)[1], hist.at))
        =>
        positions[id].exit_date =
            IF MarketBefore(id)[1].resolved_at # None
            THEN MarketBefore(id)[1].resolved_at
            ELSE IF MarketBefore(id)[1].end_date # None
                 THEN MarketBefore(id)[1].end_date
                 ELSE Some(hist.at)

\* C9: when a pass has ended, every open position it matched against the
\* feed has current_value = shares * current_price and unrealized_pnl =
\* current_value - cost_basis, whatever size and price the feed reported.
C9_MatchedPrice ==
    PassEnded =>
    \A id \in PositionIds :
        (Matched(id) /\ positions[id].status = "open") =>
            /\ positions[id].current_price # None
            /\ positions[id].current_value =
                  Some(positions[id].shares * positions[id].current_price[1])
            /\ positions[id].unrealized_pnl =
                  Some(positions[id].current_value[1]
                       - positions[id].cost_basis)

\* The feed reported for a matched position a positive size other than the
\* ledger's shares.
Resized(id) ==
    /\ Matched(id)
    /\ MatchedRecord(id).size > 0
    /\ MatchedRecord(id).size # Before(id).shares

\* C10: when the feed reports for a matched position a positive size that
\* differs from the ledger's shares, the pass sets shares to the feed size
\* and cost_basis to cost_basis * new_shares / old_shares, leaves
\* entry_price unchanged and computes unrealized_pnl from the new cost_basis.
C10_PartialFillRescale ==
    \A id \in PositionIds :
        Resized(id) =>
            /\ positions[id].shares = MatchedRecord(id).size
            /\ positions[id].cost_basis * Before(id).shares =
                  Before(id).cost_basis * MatchedRecord(id).size
            /\ positions[id].entry_price = Before(id).entry_price
            /\ positions[id].unrealized_pnl =
                  Some(positions[id].current_value[1]
                       - positions[id].cost_basis)

\* C10 witness: a partial fill: the feed size is positive and below the
\* ledger's shares, and the pass has moved shares and cost_basis.
C10_Witness ==
    \E id \in PositionIds :
        /\ Resized(id)
        /\ MatchedRecord(id).size < Before(id).shares
        /\ positions[id].shares < Before(id).shares
        /\ positions[id].cost_basis < Before(id).cost_basis

\* The sizes the feed reported for the token of a matched position.
MatchedSizes(id) ==
    LET k == CHOOSE k \in hist.found : hist.db[k] = id
    IN {hist.feed[i].size : i \in {j \in 1..Len(hist.feed) :
                                     hist.feed[j].asset = k}}

\* C11: a feed size within the tolerance of the ledger's shares (0.005
\* share, one unit here) or not positive triggers no partial fill: the pass
\* leaves shares and cost_basis of the matched position unchanged.
C11_ToleranceNoResize ==
    \A id \in PositionIds :
        (/\ Matched(id)
         /\ \A size \in MatchedSizes(id) :
               \/ size <= 0
               \/ /\ size - Before(id).shares <= 1
                  /\ Before(id).shares - size <= 1)
        =>
        /\ positions[id].shares = Before(id).shares
        /\ positions[id].cost_basis = Before(id).cost_basis

\* C12: no pass increases the shares or the cost_basis of a position that
\* holds shares; a feed size above the ledger's shares does not rescale
\* cost_basis.
C12_NeverGrows ==
    PassRan =>
    \A id \in PositionIds :
        Before(id).shares > 0 =>
            /\ positions[id].shares <= Before(id).shares
            /\ positions[id].cost_basis <= Before(id).cost_basis

\* The latest pass repeated the pass before it: both committed, ran to
\* their end on the same path, and read the same feed and the same prices.
RepeatedPass ==
    /\ PassEnded
    /\ hist.prices_ok
    /\ hist.prev.op # "none"
    /\ hist.prev.ok
    /\ hist.prev.prices_ok
    /\ hist.prev.path = hist.path
    /\ hist.prev.feed = hist.feed
    /\ \A id \in DOMAIN hist.prices :
          /\ id \in DOMAIN hist.prev.prices
          /\ hist.prev.prices[id] = hist.prices[id]

\* The PositionSnapshot rows the latest pass appended for a position.
SnapshotsOf(id) ==
    {i \in 1..Len(hist.snapshots) : hist.snapshots[i].position_id = id}

\* C13: when a pass repeats the pass before it with identical feed data
\* and unchanged market data, it changes no field of any position and
\* appends one PositionSnapshot row per open matched position.
C13_IdempotentAppend ==
    RepeatedPass =>
        /\ positions = hist.before
        /\ \A id \in PositionIds :
              Cardinality(SnapshotsOf(id)) =
                 IF Matched(id) /\ positions[id].status = "open"
                 THEN 1 ELSE 0

\* C14: a feed record of size 0 is ignored when matching: an open position
\* the pass holds for a token that the feed lists only with size 0 is
\* treated as ledger-only, so the pass closes it and appends no
\* PositionSnapshot row for it.
C14_ZeroSizeIgnored ==
    \A id \in PositionIds :
        (/\ Matched(id)
         /\ \A size \in MatchedSizes(id) : size = 0)
        =>
        /\ positions[id].status = "closed"
        /\ SnapshotsOf(id) = {}

\* C15: an open position whose market has no token id for its direction is
\* dropped from matching: a pass neither updates nor closes it, and every
\* field of it is unchanged.
C15_NoTokenUntouched ==
    PassRan =>
    \A id \in PositionIds :
        (/\ Before(id).status = "open"
         /\ MarketBefore(id) # None
         /\ ~Truthy(TokenOf(Before(id), MarketBefore(id)[1])))
        =>
        positions[id] = Before(id)

\* C16: a pass appends exactly one PositionSnapshot row for each open
\* position it matched against the feed on records of positive size, also
\* when the feed lists the token more than once, and none for a position
\* it did not match (the ones it closes among them).
C16_OneSnapshotEach ==
    PassRan =>
    \A id \in PositionIds :
        /\ (Matched(id) /\ \A size \in MatchedSizes(id) : size > 0)
              => Cardinality(SnapshotsOf(id)) = 1
        /\ ~Matched(id) => SnapshotsOf(id) = {}

\* The PortfolioSnapshot row the latest pass wrote.
NewSnapshot == portfolio_snapshots[Len(portfolio_snapshots)]

\* The open positions the latest pass matched against the feed.
MatchedOpen ==
    {id \in PositionIds : Matched(id) /\ positions[id].status = "open"}

RECURSIVE SumCurrentValue(_)
SumCurrentValue(ids) ==
    IF ids = {} THEN 0
    ELSE LET id == CHOOSE x \in ids : TRUE
         IN positions[id].current_value[1] + SumCurrentValue(ids \ {id})

\* C17: the position_value of the PortfolioSnapshot a pass writes is the sum
\* of current_value over the open positions matched in that pass; feed
\* records without a ledger counterpart and positions the pass closes
\* contribute 0.
C17_PositionValue ==
    (PassRan /\ hist.op = "take_portfolio_snapshot") =>
        NewSnapshot.position_value = SumCurrentValue(MatchedOpen)

\* The snapshot with the greatest timestamp among those written before the
\* i-th one, None when i is the first.
PreviousSnapshot(i) ==
    IF i = 1 THEN None
    ELSE Some(portfolio_snapshots[
            CHOOSE j \in 1..(i - 1) :
               \A k \in 1..(i - 1) :
                  portfolio_snapshots[k].timestamp
                     <= portfolio_snapshots[j].timestamp])

\* C18: every PortfolioSnapshot has daily_pnl = total_value - previous
\* total_value and daily_pnl_pct = daily_pnl / previous total_value x 100,
\* previous being the snapshot with the greatest timestamp before it; both
\* are null when there is no previous snapshot or its total_value is <= 0.
C18_DailyPnl ==
    \A i \in 1..Len(portfolio_snapshots) :
        LET new == portfolio_snapshots[i]
            previous == PreviousSnapshot(i)
        IN IF previous = None \/ previous[1].total_value <= 0
           THEN new.daily_pnl = None /\ new.daily_pnl_pct = None
           ELSE /\ new.daily_pnl =
                     Some(new.total_value - previous[1].total_value)
                /\ new.daily_pnl_pct # None
                /\ new.daily_pnl_pct[1].num = new.daily_pnl[1] * 100
                /\ new.daily_pnl_pct[1].den = previous[1].total_value

\* C18 witness: a second snapshot written after one of positive
\* total_value, with a daily P&L that is not 0.
C18_Witness ==
    /\ Len(portfolio_snapshots) = 2
    /\ portfolio_snapshots[1].total_value > 0
    /\ portfolio_snapshots[2].daily_pnl # None
    /\ portfolio_snapshots[2].daily_pnl # Some(0)
    /\ portfolio_snapshots[2].daily_pnl_pct # None

C20_SingleCommit ==
    (/\ hist.path = "scheduled"
     /\ hist.ok
     /\ pc = "prices" \/ ~hist.prices_ok)
    => positions = hist.before

\* C24: from the same ledger and with the same feed, the manual trigger
\* leaves the Position, PortfolioSnapshot and PositionSnapshot tables as a
\* scheduled pass does: what a completed scheduled pass left is what
\* take_snapshot leaves from the ledger the pass started from (feeds of
\* positive sizes).
C24_ManualAsScheduled ==
    (/\ hist.path = "scheduled"
     /\ hist.op = "update_position_prices"
     /\ hist.ok /\ hist.prices_ok /\ hist.done
     /\ \A k \in 1..Len(hist.feed) : hist.feed[k].size > 0)
    => \E rows \in RowOrders(hist.before) :
          LET manual == take_portfolio_snapshot(hist.feed, rows, hist.before,
                                                markets, <<>>, <<>>, hist.at)
          IN /\ positions = manual.positions
             /\ portfolio_snapshots = manual.portfolio_snapshots
             /\ position_snapshots = manual.position_snapshots

-----------------------------------------------------------------------------
(* Feed client on raw responses: _request, get_wallet_positions,            *)
(* get_wallet_balance and get_market_price with their exceptions.           *)
(* A call returns [raised, value]: raised is "" when the call returns value *)
(* and the name of the exception class when it raises.                      *)

NoException == ""

Return(v) == [raised |-> NoException, value |-> v]

Raise(exception) == [raised |-> exception, value |-> None]

\* A JSON value in a numeric field of a feed record: a number, or one of
\* the kinds "missing" (no such key), "null" and "text" (a string that is
\* not a number).
Number(n) == [kind |-> "number", value |-> n]

\* Decimal(str(pos.get(key, 0))): the default 0 for a missing key, the
\* number for a number, decimal.InvalidOperation for str(None) = "None" and
\* for any other text.
ParseDecimal(raw) ==
    CASE raw.kind = "number" -> Return(raw.value)
      [] raw.kind = "missing" -> Return(0)
      [] OTHER -> Raise("InvalidOperation")

\* An element of the response list: a JSON object with the fields read
\* here, or a value that is not an object (a string, a number, null).
RawRecord(asset, size, currentPrice) ==
    [object |-> TRUE, asset |-> asset, size |-> size,
     currentPrice |-> currentPrice]

NotAnObject ==
    [object |-> FALSE, asset |-> NoneStr, size |-> Number(1),
     currentPrice |-> Number(1)]

\* Lines 62-78, the try body for one record: pos.get on a value without
\* that method raises AttributeError, a field that does not parse raises
\* decimal.InvalidOperation.
ProcessRaw(pos) ==
    IF ~pos.object THEN Raise("AttributeError")
    ELSE LET size == ParseDecimal(pos.size)
             current_price == ParseDecimal(pos.currentPrice)
         IN IF size.raised # NoException THEN size
            ELSE IF current_price.raised # NoException THEN current_price
            ELSE Return(ProcessedPosition(
                     [asset |-> pos.asset, size |-> size.value,
                      currentPrice |-> current_price.value]))

\* Line 79: except (ValueError, TypeError).
CaughtPerRecord(exception) == exception \in {"ValueError", "TypeError"}

\* An upstream answer to GET /positions: a failure of the request (network
\* error, timeout, HTTP status, invalid JSON), or a JSON body that is a list
\* of records or something else.
Response(ok, list, body) == [ok |-> ok, list |-> list, body |-> body]

RequestFailed == Response(FALSE, FALSE, <<>>)

NotAList == Response(TRUE, FALSE, <<>>)

\* _request: the body, or the exception of the failed request.
request(response) ==
    IF response.ok THEN Return(response.body) ELSE Raise("ClientError")

\* get_wallet_positions with its except clause left out: the failure of
\* the request reaches the caller.
get_wallet_positions_raises(response) ==
    LET data == request(response)
    IN IF data.raised # NoException THEN data
       ELSE Return(IF response.list THEN data.value ELSE <<>>)

\* get_wallet_positions: the list, or [] for anything else and for every
\* exception.
get_wallet_positions(response) ==
    LET data == request(response)
    IN IF data.raised # NoException THEN Return(<<>>)
       ELSE Return(IF response.list THEN data.value ELSE <<>>)

\* Lines 57-81: the loop over the records.  A record whose exception the
\* except clause names is skipped; any other exception leaves the loop and
\* get_wallet_balance.
RECURSIVE ProcessAll(_, _)
ProcessAll(records, processed) ==
    IF records = <<>> THEN Return(processed)
    ELSE LET r == ProcessRaw(records[1])
         IN IF r.raised = NoException
            THEN ProcessAll(Tail(records), Append(processed, r.value))
            ELSE IF CaughtPerRecord(r.raised)
            THEN ProcessAll(Tail(records), processed)
            ELSE Raise(r.raised)

\* get_wallet_balance on an upstream answer.
wallet_balance(response) ==
    LET positions_ == get_wallet_positions(response)
        processed == IF positions_.raised # NoException THEN positions_
                     ELSE ProcessAll(positions_.value, <<>>)
    IN IF processed.raised # NoException THEN processed
       ELSE Return([usdc_balance |-> 0,
                    total_position_value |-> SumValues(processed.value),
                    positions |-> processed.value])

\* An upstream answer to GET /book: a failure of the request, or the bids
\* and the asks of the book, each the JSON value of its "price" key.
Book(ok, bids, asks) == [ok |-> ok, bids |-> bids, asks |-> asks]

BookFailed == Book(FALSE, <<>>, <<>>)

\* (best_bid + best_ask) / 2, exact for Decimal; the prices drawn for the
\* two sides of one book have an even sum of ticks.
Midpoint(best_bid, best_ask) == (best_bid + best_ask) \div 2

\* Lines 98-110, the try body of get_market_price: the first bid and the
\* first ask.
market_price_body(book) ==
    LET data == request([ok |-> book.ok, body |-> book])
        best_bid == ParseDecimal(book.bids[1])
        best_ask == ParseDecimal(book.asks[1])
    IN IF data.raised # NoException THEN data
       ELSE IF book.bids # <<>> /\ book.asks # <<>>
       THEN IF best_bid.raised # NoException THEN best_bid
            ELSE IF best_ask.raised # NoException THEN best_ask
            ELSE Return(Some(Midpoint(best_bid.value, best_ask.value)))
       ELSE IF book.bids # <<>>
       THEN IF best_bid.raised # NoException THEN best_bid
            ELSE Return(Some(best_bid.value))
       ELSE IF book.asks # <<>>
       THEN IF best_ask.raised # NoException THEN best_ask
            ELSE Return(Some(best_ask.value))
       ELSE Return(None)

\* get_market_price without its except clause.
get_market_price_raises(book) == market_price_body(book)

\* get_market_price: lines 111-113 turn every exception into None.
get_market_price(book) ==
    LET price == market_price_body(book)
    IN IF price.raised # NoException THEN Return(None) ELSE price

-----------------------------------------------------------------------------
(* Interleaved passes: the scheduler's job, the manual trigger, and the     *)
(* steps of a pass between two awaits.  pc, passes and hist are not used.   *)

MaxStarted == 2
MaxManual == 1
MaxDropped == 1
MaxDue == 2

\* add_job(..., max_instances=1, coalesce=True)
max_instances == 1

coalesce == TRUE

\* The scheduler runs the job at a wake-up when fewer than max_instances
\* instances of it are running.
SlotAlwaysFree(instances) == TRUE

SlotFree(instances) == instances < max_instances

\* The run times handed to the executor at a wake-up with `due` run times
\* due without coalescing: every one of them.
RunTimesAll(due) == due

\* The run times handed to the executor at a wake-up with `due` run times
\* due: the last one alone when the job coalesces.
RunTimes(due) == IF coalesce THEN 1 ELSE due

\* The slot held until a pass ends without an exception.
ReleasedOnSuccess(instances, failed) ==
    IF failed THEN instances ELSE instances - 1

\* The slot when the call of poll_portfolio returns: the except clause
\* keeps every exception inside, the call returns either way.
Released(instances, failed) == instances - 1

\* A request gated by the slot of the scheduled job.
ManualGated(instances) == instances = 0

\* take_snapshot runs on every request: the handler does not consult the
\* scheduler.
ManualAdmitted(instances) == TRUE

\* A client closed only when the pass did not fail.
ClientClosedOnSuccess(client, failed) ==
    IF ~failed /\ client.session = "open"
    THEN [client EXCEPT !.session = "closed"] ELSE client

\* finally: await client.close(), which closes the session if there is one
\* and it is open.
ClientClosed(client, failed) ==
    IF client.session = "open" THEN [client EXCEPT !.session = "closed"]
    ELSE client

\* What the entry point hands to its caller: poll_portfolio returns None
\* after its except clause, take_snapshot lets the exception through or
\* returns the snapshot.
Outcome(kind, failed, exception, snapshot) ==
    IF kind = "scheduled" THEN Return(None)
    ELSE IF failed THEN Raise(exception) ELSE Return(snapshot)



\* A pass at its start: PolymarketClient(...) and TrackerService(db, client)
\* constructed, no request made yet.
NewRun(kind, n) ==
    [kind |-> kind, pc |-> "fetch",
     client |-> [id |-> n, session |-> "none"],
     failed |-> FALSE, stage |-> "none", exception |-> NoException,
     response |-> RequestFailed, wallet |-> Return(None),
     rows |-> <<>>, read |-> <<>>, snapshot |-> None,
     written |-> <<>>, snapshots |-> <<>>,
     books |-> <<>>, lookups |-> <<>>, prices |-> <<>>,
     prices_read |-> <<>>, priced |-> <<>>,
     returned |-> Return(None)]

\* An exception in a stage: the rollback of the session, then the except
\* clause of poll_portfolio or the finally clause of take_snapshot.
Fail(run, stage, exception) ==
    [run EXCEPT !.pc = "close", !.failed = TRUE, !.stage = stage,
                !.exception = exception]

\* The UPDATE statements of a commit set the columns the session changed
\* since it loaded the row; the other columns keep what the table holds.
CommitWrites(table, read, written) ==
    [id \in DOMAIN table |->
        [f \in DOMAIN table[id] |->
            IF written[id][f] # read[id][f] THEN written[id][f]
            ELSE table[id][f]]]

UnchangedBySchedule == UNCHANGED <<markets, pc, passes, hist>>

\* A wake-up of the interval trigger that finds the slot free: the job is
\* submitted and poll_portfolio starts.
Tick(due, cap) ==
    /\ sched.started < cap
    /\ SlotFree(sched.instances)
    /\ sched' = [sched EXCEPT !.instances = @ + 1,
                               !.run_times = RunTimes(due) - 1,
                               !.ticks = @ + 1,
                               !.started = @ + 1]
    /\ runs' = Append(runs, NewRun("scheduled", Len(runs) + 1))
    /\ UNCHANGED <<positions, portfolio_snapshots, position_snapshots, now>>
    /\ UnchangedBySchedule

\* A wake-up that finds max_instances instances running: the run is
\* skipped, nothing is kept for later.
TickDropped(cap) ==
    /\ sched.dropped < cap
    /\ ~SlotFree(sched.instances)
    /\ sched' = [sched EXCEPT !.dropped = @ + 1]
    /\ UNCHANGED <<positions, portfolio_snapshots, position_snapshots, now,
                   runs>>
    /\ UnchangedBySchedule

\* POST /portfolio/snapshot arrives: the handler builds its client and
\* tracker.
ManualBegin(cap) ==
    /\ sched.manual < cap
    /\ ManualAdmitted(sched.instances)
    /\ sched' = [sched EXCEPT !.manual = @ + 1]
    /\ runs' = Append(runs, NewRun("manual", Len(runs) + 1))
    /\ UNCHANGED <<positions, portfolio_snapshots, position_snapshots, now>>
    /\ UnchangedBySchedule

\* await self.client.get_wallet_balance(): the first request opens the
\* session of the client.
Fetch(i, response) ==
    /\ runs[i].pc = "fetch"
    /\ LET wallet == wallet_balance(response)
           run == [runs[i] EXCEPT !.client.session = "open",
                                  !.response = response,
                                  !.wallet = wallet]
       IN runs' = [runs EXCEPT ![i] =
                      IF wallet.raised # NoException
                      THEN Fail(run, "snapshot", wallet.raised)
                      ELSE [run EXCEPT !.pc = "read"]]
    /\ UNCHANGED <<positions, portfolio_snapshots, position_snapshots, now,
                   sched>>
    /\ UnchangedBySchedule

\* tracker.py lines 32-62: the latest snapshot and the open rows are read
\* and the writes of the pass prepared in the session.
Read(i, rows) ==
    /\ runs[i].pc = "read"
    /\ LET wallet_data == runs[i].wallet.value
           snapshot == NewPortfolioSnapshot(
                           wallet_data, LatestSnapshot(portfolio_snapshots),
                           now)
           sync == sync_positions(wallet_data.positions, rows, positions,
                                  markets, now)
       IN runs' = [runs EXCEPT ![i] =
                      [@ EXCEPT !.pc = "commit",
                                !.rows = rows,
                                !.read = positions,
                                !.snapshot = Some(snapshot),
                                !.written = sync.positions,
                                !.snapshots = sync.snapshots]]
    /\ now' = now + 1
    /\ UNCHANGED <<positions, portfolio_snapshots, position_snapshots,
                   sched>>
    /\ UnchangedBySchedule

\* await self.db.commit() of take_portfolio_snapshot; the manual trigger
\* returns the snapshot, the scheduled pass goes on to the prices.
Commit(i) ==
    /\ runs[i].pc = "commit"
    /\ positions' = CommitWrites(positions, runs[i].read, runs[i].written)
    /\ portfolio_snapshots' =
          Append(portfolio_snapshots, runs[i].snapshot[1])
    /\ position_snapshots' = position_snapshots \o runs[i].snapshots
    /\ runs' = [runs EXCEPT ![i] =
                   [@ EXCEPT !.pc = IF runs[i].kind = "scheduled"
                                    THEN "prices" ELSE "close"]]
    /\ UNCHANGED <<now, sched>>
    /\ UnchangedBySchedule

\* The commit raises: rollback, and the exception leaves
\* take_portfolio_snapshot.
CommitFails(i) ==
    /\ runs[i].pc = "commit"
    /\ runs' = [runs EXCEPT ![i] = Fail(@, "snapshot", "SQLAlchemyError")]
    /\ UNCHANGED <<positions, portfolio_snapshots, position_snapshots, now,
                   sched>>
    /\ UnchangedBySchedule

\* What the loop of update_position_prices keeps of a lookup: the price,
\* or nothing when the lookup raised (line 261).
LookupPrice(lookup) ==
    IF lookup.raised # NoException THEN None ELSE lookup.value

\* update_position_prices up to its commit: one get_market_price per open
\* position with a token, in turn; no commit when no price was found.
Prices(i, books) ==
    /\ runs[i].pc = "prices"
    /\ LET lookups == [id \in DOMAIN books |-> get_market_price(books[id])]
           prices == [id \in DOMAIN books |-> LookupPrice(lookups[id])]
           updated_count ==
               Cardinality({id \in DOMAIN books : prices[id] # None})
       IN runs' = [runs EXCEPT ![i] =
                      [@ EXCEPT !.pc = IF updated_count > 0
                                       THEN "prices_commit" ELSE "close",
                                !.books = books,
                                !.lookups = lookups,
                                !.prices = prices,
                                !.prices_read = positions,
                                !.priced = update_position_prices(
                                               positions, markets, prices)]]
    /\ UNCHANGED <<positions, portfolio_snapshots, position_snapshots, now,
                   sched>>
    /\ UnchangedBySchedule

\* await self.db.commit() of update_position_prices.
PricesCommit(i) ==
    /\ runs[i].pc = "prices_commit"
    /\ positions' =
          CommitWrites(positions, runs[i].prices_read, runs[i].priced)
    /\ runs' = [runs EXCEPT ![i] = [@ EXCEPT !.pc = "close"]]
    /\ UNCHANGED <<portfolio_snapshots, position_snapshots, now, sched>>
    /\ UnchangedBySchedule

\* That commit raises: the exception reaches the except clause of
\* poll_portfolio.
PricesCommitFails(i) ==
    /\ runs[i].pc = "prices_commit"
    /\ runs' = [runs EXCEPT ![i] = Fail(@, "prices", "SQLAlchemyError")]
    /\ UNCHANGED <<positions, portfolio_snapshots, position_snapshots, now,
                   sched>>
    /\ UnchangedBySchedule

\* The finally clause and the return of the entry point.  The executor
\* calls the job again for each further run time it was handed, and gives
\* the slot back after the last.
Close(i) ==
    /\ runs[i].pc = "close"
    /\ LET run == runs[i]
           done == [run EXCEPT
                      !.pc = "done",
                      !.client = ClientClosed(run.client, run.failed),
                      !.returned = Outcome(run.kind, run.failed,
                                           run.exception, run.snapshot)]
           ended == [runs EXCEPT ![i] = done]
       IN IF run.kind = "scheduled" /\ sched.run_times > 0
          THEN /\ runs' = Append(ended, NewRun("scheduled", Len(runs) + 1))
               /\ sched' = [sched EXCEPT !.run_times = @ - 1,
                                          !.started = @ + 1]
          ELSE /\ runs' = ended
               /\ sched' =
                     IF run.kind = "scheduled"
                     THEN [sched EXCEPT !.instances =
                                           Released(@, run.failed)]
                     ELSE sched
    /\ UNCHANGED <<positions, portfolio_snapshots, position_snapshots, now>>
    /\ UnchangedBySchedule

\* The ledger the interleaved passes start from: one market with both
\* tokens, an open position on each side.
SchedLedger ==
    [id \in PositionIds |->
        Row(Some(1), IF id = 1 THEN "yes" ELSE "no", MaxShares, 1, Some(2),
            "open")]

SchedMarkets ==
    [m \in MarketIds |->
        [clob_token_id_yes |-> TokenYes, clob_token_id_no |-> TokenNo,
         end_date |-> None, resolved_at |-> None,
         resolution_outcome |-> NoneStr]]

SchedInit ==
    /\ positions = SchedLedger
    /\ markets = SchedMarkets
    /\ portfolio_snapshots = <<>>
    /\ position_snapshots = <<>>
    /\ now \in StartTimes
    /\ pc = "idle"
    /\ passes = 0
    /\ hist = NoHistory
    /\ runs = <<>>
    /\ sched = NoJobs

\* Answers of GET /positions to the interleaved passes: a failed request,
\* the holding on one token, and a record with a null size.
SchedResponses ==
    {RequestFailed,
     Response(TRUE, TRUE, <<RawRecord(TokenYes, Number(1), Number(3))>>),
     Response(TRUE, TRUE,
              <<RawRecord(TokenYes, [kind |-> "null", value |-> 0],
                          Number(3))>>)}

\* Answers of GET /book to the interleaved passes.
SchedBooks == {BookFailed, Book(TRUE, <<Number(1)>>, <<Number(3)>>)}

Running == {i \in 1..Len(runs) : runs[i].pc # "done"}

\* The steps of an instance of poll_portfolio.
ScheduledStep(i, responses, books) ==
    /\ runs[i].kind = "scheduled"
    /\ \/ \E response \in responses : Fetch(i, response)
       \/ \E rows \in RowOrders(positions) : Read(i, rows)
       \/ Commit(i)
       \/ CommitFails(i)
       \/ \E b \in [PricedRows(positions, markets) -> books] : Prices(i, b)
       \/ PricesCommit(i)
       \/ PricesCommitFails(i)
       \/ Close(i)

\* The steps of a request to take_snapshot.
ManualStep(i, responses) ==
    /\ runs[i].kind = "manual"
    /\ \/ \E response \in responses : Fetch(i, response)
       \/ \E rows \in RowOrders(positions) : Read(i, rows)
       \/ Commit(i)
       \/ CommitFails(i)
       \/ Close(i)

SchedNext ==
    \/ \E due \in 1..MaxDue : Tick(due, MaxStarted)
    \/ TickDropped(MaxDropped)
    \/ ManualBegin(MaxManual)
    \/ \E i \in Running : ScheduledStep(i, SchedResponses, SchedBooks)
    \/ \E i \in Running : ManualStep(i, SchedResponses)

\* The scheduled job and the manual trigger on one event loop.
SchedSpec == SchedInit /\ [][SchedNext]_vars

\* The interval trigger keeps firing and every await of a scheduled pass
\* returns (each request has a timeout), so a wake-up that can start a
\* pass and a step of a running pass are eventually taken.
FairSchedSpec ==
    /\ SchedSpec
    /\ WF_vars(\E due \in 1..MaxDue : Tick(due, MaxStarted))
    /\ WF_vars(\E i \in Running :
                  ScheduledStep(i, SchedResponses, SchedBooks))

-----------------------------------------------------------------------------
(* Claims on the scheduler and the entry points *)

ScheduledRuns == {i \in 1..Len(runs) : runs[i].kind = "scheduled"}

ManualRuns == {i \in 1..Len(runs) : runs[i].kind = "manual"}

Ended(i) == runs[i].pc = "done"

\* C21: at any time at most one instance of the poll_portfolio job is
\* executing, however long a pass takes compared with the tick interval.
C21_SingleFlight == Cardinality(ScheduledRuns \cap Running) <= 1

\* A wake-up arrived during a pass that is still running.
C21_Witness ==
    /\ sched.dropped > 0
    /\ Cardinality(ScheduledRuns \cap Running) = 1

\* C22: a tick that fires while a scheduled pass is running starts no pass
\* then or later: a pass starts only in a step that is a tick firing with
\* no pass running, a dropped tick leaves the passes as they are, and the
\* passes started never outnumber the ticks that fired with no pass
\* running.
C22_DroppedNotQueued ==
    [][/\ sched'.started <= sched'.ticks
       /\ sched'.started > sched.started =>
             /\ ScheduledRuns \cap Running = {}
             /\ sched'.ticks = sched.ticks + 1
       /\ sched'.dropped > sched.dropped =>
             /\ runs' = runs
             /\ sched'.started = sched.started]_vars

\* A tick was dropped, the pass it overlapped has ended, and no further
\* pass has started.
C22_Witness ==
    /\ sched.dropped > 0
    /\ sched.started = 1
    /\ \A i \in ScheduledRuns : Ended(i)

FailedPasses == {i \in ScheduledRuns : runs[i].failed /\ Ended(i)}

\* C23: an exception raised inside a scheduled pass stays inside
\* poll_portfolio, whose call returns normally, and the slot is given back:
\* with ticks that keep firing, a new pass is eventually started after a
\* failed one.
C23_FailedPassReleases ==
    /\ [](\A i \in ScheduledRuns :
             Ended(i) => runs[i].returned.raised = NoException)
    /\ \A n \in 1..(MaxStarted - 1) :
          (sched.started = n /\ FailedPasses # {}) ~> (sched.started > n)

\* A pass failed and ended, and a later pass was started.
C23_Witness ==
    \E i \in FailedPasses : \E j \in ScheduledRuns : j > i

\* C25: the manual trigger is not gated by the slot of the scheduled job:
\* a request is taken up whether or not a scheduled pass is running.
C25_ManualNotGated ==
    sched.manual < MaxManual => ENABLED ManualBegin(MaxManual)

\* A scheduled pass and a manual pass have read the same open rows and
\* neither has committed.
C25_Witness ==
    \E i \in ScheduledRuns, j \in ManualRuns :
        /\ runs[i].pc = "commit"
        /\ runs[j].pc = "commit"
        /\ runs[i].read = runs[j].read
        /\ OpenRows(runs[i].read) # {}
        /\ Range(runs[i].rows) = Range(runs[j].rows)

\* C26: a pass that has ended has closed the session of its client,
\* whatever stage failed and whichever entry point started it, and no two
\* passes share a client.
C26_ClientClosed ==
    /\ \A i \in 1..Len(runs) :
          Ended(i) => runs[i].client.session = "closed"
    /\ \A i, j \in 1..Len(runs) :
          i # j => runs[i].client.id # runs[j].client.id

\* A scheduled pass that failed in the price stage and a manual pass that
\* failed in the snapshot stage have both ended.
C26_Witness ==
    \E i \in ScheduledRuns, j \in ManualRuns :
        /\ Ended(i) /\ runs[i].failed /\ runs[i].stage = "prices"
        /\ Ended(j) /\ runs[j].failed /\ runs[j].stage = "snapshot"

-----------------------------------------------------------------------------
(* One pass on every answer of the two upstream services *)

MaxFeedRuns == 1
MaxRaw == 2

Malformed(kind) == [kind |-> kind, value |-> 0]

\* The records of a response: a holding on either token, a record with a
\* missing, null or non-numeric size or price, and an element that is not
\* an object.
RawRecords ==
    {RawRecord(TokenYes, Number(1), Number(3)),
     RawRecord(TokenNo, Number(MaxShares), Number(3)),
     NotAnObject}
        \cup {RawRecord(TokenYes, Malformed(k), Number(3)) :
                 k \in {"missing", "null", "text"}}
        \cup {RawRecord(TokenYes, Number(1), Malformed(k)) :
                 k \in {"missing", "null", "text"}}

FeedResponses ==
    {RequestFailed, NotAList}
        \cup {Response(TRUE, TRUE, body) : body \in SeqsUpTo(RawRecords, MaxRaw)}

\* One side of a book: empty, one or two levels, or a level whose price is
\* null.
BookSides ==
    {<<>>, <<Number(1)>>, <<Number(3)>>, <<Number(3), Number(1)>>,
     <<Malformed("null")>>}

FeedBooks ==
    {BookFailed} \cup {Book(TRUE, bids, asks) : bids, asks \in BookSides}

FeedNext ==
    \/ /\ Len(runs) < MaxFeedRuns
       /\ \E due \in 1..MaxDue : Tick(due, MaxFeedRuns)
    \/ /\ Len(runs) < MaxFeedRuns
       /\ ManualBegin(MaxFeedRuns)
    \/ \E i \in Running : ScheduledStep(i, FeedResponses, FeedBooks)
    \/ \E i \in Running : ManualStep(i, FeedResponses)

\* A single pass, scheduled or manual, on every answer above.
FeedSpec == SchedInit /\ [][FeedNext]_vars

-----------------------------------------------------------------------------
(* Claims on the feed client and the price stage *)

Fetched(i) == runs[i].pc # "fetch"

EmptyWallet ==
    [usdc_balance |-> 0, total_position_value |-> 0, positions |-> <<>>]

\* C27: get_wallet_positions never raises; when the request fails or the
\* body is not a list the wallet is the empty one, and the pass does not
\* fail in get_wallet_balance: only a commit can still make it fail.
C27_WalletQueryNeverRaises ==
    \A i \in 1..Len(runs) :
        Fetched(i) =>
            /\ get_wallet_positions(runs[i].response).raised = NoException
            /\ ~runs[i].response.ok \/ ~runs[i].response.list =>
                  /\ runs[i].wallet = Return(EmptyWallet)
                  /\ runs[i].failed => runs[i].exception = "SQLAlchemyError"

\* A pass whose wallet request failed has committed and ended.
C27_Witness ==
    \E i \in 1..Len(runs) :
        /\ Ended(i) /\ ~runs[i].failed
        /\ ~runs[i].response.ok
        /\ Len(portfolio_snapshots) = 1

WellFormed(pos) ==
    pos.object /\ pos.size.kind = "number" /\ pos.currentPrice.kind = "number"

RECURSIVE WellFormedOnly(_)
WellFormedOnly(records) ==
    IF records = <<>> THEN <<>>
    ELSE IF WellFormed(records[1])
    THEN <<ProcessRaw(records[1]).value>> \o WellFormedOnly(Tail(records))
    ELSE WellFormedOnly(Tail(records))

\* C28: a malformed record of the response is skipped: the wallet holds the
\* well-formed records, in order, and the pass does not fail in
\* get_wallet_balance.
C28_MalformedSkipped ==
    \A i \in 1..Len(runs) :
        Fetched(i) /\ runs[i].response.ok /\ runs[i].response.list =>
            /\ runs[i].wallet.raised = NoException
            /\ runs[i].wallet.value.positions =
                  WellFormedOnly(runs[i].response.body)

Priced(i) == runs[i].kind = "scheduled" /\ runs[i].books # <<>>

FirstPrice(side) == side[1].value

NumericFirst(side) == side # <<>> /\ side[1].kind = "number"

\* C29: get_market_price never raises; it returns the midpoint of the
\* first bid and the first ask when both sides have one, the first price
\* of the side that has one when the other is empty, and none when both
\* are empty or the request fails.
C29_MarketPrice ==
    \A i \in 1..Len(runs) : Priced(i) =>
        \A id \in DOMAIN runs[i].books :
            LET book == runs[i].books[id]
                lookup == runs[i].lookups[id]
            IN /\ lookup.raised = NoException
               /\ ~book.ok => lookup.value = None
               /\ book.ok /\ book.bids = <<>> /\ book.asks = <<>> =>
                     lookup.value = None
               /\ book.ok /\ NumericFirst(book.bids) /\ book.asks = <<>> =>
                     lookup.value = Some(FirstPrice(book.bids))
               /\ book.ok /\ book.bids = <<>> /\ NumericFirst(book.asks) =>
                     lookup.value = Some(FirstPrice(book.asks))
               /\ book.ok /\ NumericFirst(book.bids)
                          /\ NumericFirst(book.asks) =>
                     /\ lookup.value # None
                     /\ 2 * lookup.value[1] =
                           FirstPrice(book.bids) + FirstPrice(book.asks)

\* One pass looked up a failed request, a book with both sides and two
\* levels on a side.
C29_Witness ==
    \E i \in 1..Len(runs) :
        /\ Priced(i)
        /\ DOMAIN runs[i].books = PositionIds
        /\ ~runs[i].books[1].ok
        /\ runs[i].books[2] = Book(TRUE, <<Number(3), Number(1)>>,
                                   <<Number(1)>>)
        /\ runs[i].lookups[2] = Return(Some(2))

PriceFields(p) == <<p.current_price, p.current_value, p.unrealized_pnl>>

\* C30: when the price stage commits, every position whose lookup failed
\* or gave no price keeps its current_price, current_value and
\* unrealized_pnl, and every other position looked up carries the price
\* found for it and the value and unrealized P&L at that price.
C30_LookupsIndependent ==
    [][\A i \in 1..Len(runs) :
          runs[i].pc = "prices_commit" /\ runs'[i].pc = "close"
                                       /\ ~runs'[i].failed =>
              \A id \in DOMAIN runs[i].books :
                  LET price == runs[i].lookups[id].value
                      p == positions'[id]
                  IN IF price = None
                     THEN PriceFields(p) = PriceFields(positions[id])
                     ELSE PriceFields(p) =
                            <<price, Some(p.shares * price[1]),
                              Some(p.shares * price[1] - p.cost_basis)>>]_vars

\* The lookup of the first position failed, the second position got a new
\* price in the same pass.
C30_Witness ==
    \E i \in 1..Len(runs) :
        /\ Priced(i) /\ Ended(i) /\ ~runs[i].failed
        /\ DOMAIN runs[i].books = PositionIds
        /\ ~runs[i].books[1].ok
        /\ positions[1].status = "open"
        /\ PriceFields(positions[1]) = PriceFields(runs[i].prices_read[1])
        /\ runs[i].prices[2] # None
        /\ positions[2].current_price = runs[i].prices[2]
        /\ positions[2].current_price # runs[i].prices_read[2].current_price

-----------------------------------------------------------------------------
(* Claims on what a pass leaves alone and on what it records *)

ExitFields(p) ==
    <<p.realized_pnl, p.exit_price, p.exit_date, p.exit_reasoning>>

\* C31: no step of a pass changes the thesis_status or the entry_price of
\* a position or any Market row, and a position open before and after the
\* step keeps its realized_pnl, exit_price, exit_date and exit_reasoning.
C31_FrameOfPass ==
    [][/\ markets' = markets
       /\ \A id \in PositionIds :
             /\ positions'[id].thesis_status = positions[id].thesis_status
             /\ positions'[id].entry_price = positions[id].entry_price
             /\ positions[id].status = "open" /\ positions'[id].status = "open"
                   => ExitFields(positions'[id]) = ExitFields(positions[id])]_vars

\* A pass closed one position and repriced another that stays open.
C31_Witness ==
    /\ PassEnded
    /\ hist.closed_now # {}
    /\ \E id \in PositionIds :
          /\ Matched(id)
          /\ positions[id].status = "open"
          /\ positions[id].current_price # Before(id).current_price

C33_NoCash ==
    \A i \in 1..Len(portfolio_snapshots) :
        /\ portfolio_snapshots[i].cash_balance = 0
        /\ portfolio_snapshots[i].total_value =
              portfolio_snapshots[i].position_value

\* Two passes have written a row, the later one with holdings of value.
C33_Witness ==
    /\ Len(portfolio_snapshots) = 2
    /\ portfolio_snapshots[2].position_value > 0

\* C34: a pass whose positions request failed closes nothing: at its
\* commit every position that was open is still open.
C34_FailedFeedKeepsOpen ==
    [][\A i \in 1..Len(runs) :
          (/\ runs[i].pc = "commit"
           /\ runs'[i].pc # "commit" /\ ~runs'[i].failed
           /\ ~runs[i].response.ok)
          => \A id \in PositionIds :
                positions[id].status = "open" =>
                    positions'[id].status = "open"]_vars

\* Answers of GET /positions to a scheduled and a manual pass that overlap
\* while the wallet is sold out: both holdings, or none.
RaceResponses ==
    {Response(TRUE, TRUE, <<>>),
     Response(TRUE, TRUE, <<RawRecord(TokenYes, Number(1), Number(3)),
                            RawRecord(TokenNo, Number(MaxShares), Number(3))>>)}

RaceNext ==
    \/ \E due \in 1..MaxDue : Tick(due, MaxFeedRuns)
    \/ TickDropped(MaxDropped)
    \/ ManualBegin(MaxManual)
    \/ \E i \in Running : ScheduledStep(i, RaceResponses, SchedBooks)
    \/ \E i \in Running : ManualStep(i, RaceResponses)

\* One scheduled pass and one manual pass in every interleaving.
RaceSpec == SchedInit /\ [][RaceNext]_vars

Succeeded(i) == Ended(i) /\ ~runs[i].failed

\* C35: once one scheduled pass and one manual pass over the same ledger
\* have both committed and ended, in whatever order their steps were
\* taken, every closed position has current_value 0 and unrealized_pnl 0.
C35_ClosedStaysSettled ==
    (/\ \E i \in ScheduledRuns : Succeeded(i)
     /\ \E j \in ManualRuns : Succeeded(j))
    => \A id \in PositionIds :
          positions[id].status = "closed" =>
              /\ positions[id].current_value = Some(0)
              /\ positions[id].unrealized_pnl = Some(0)

\* C36: every position a pass has just closed has realized_pnl = shares x
\* exit_price - cost_basis, whichever way it was closed and however the
\* resolution_outcome of its market is spelled.
C36_RealizedMatchesExit ==
    PassRan =>
        \A id \in hist.closed_now :
            LedgerOnly(id) =>
            positions[id].realized_pnl =
                Some(positions[id].shares * positions[id].exit_price[1]
                        - positions[id].cost_basis)

\* C37: at the end of a scheduled pass every position the pass matched and
\* left open carries the price and the value of a PositionSnapshot row the
\* pass appended for it (feeds of positive sizes).
C37_LedgerPriceRecorded ==
    (/\ hist.path = "scheduled"
     /\ hist.op = "update_position_prices"
     /\ hist.ok /\ hist.done
     /\ \A k \in 1..Len(hist.feed) : hist.feed[k].size > 0)
    => \A id \in PositionIds :
          Matched(id) /\ positions[id].status = "open" =>
              \E k \in 1..Len(hist.snapshots) :
                  /\ hist.snapshots[k].position_id = id
                  /\ positions[id].current_price =
                        Some(hist.snapshots[k].price)
                  /\ positions[id].current_value =
                        Some(hist.snapshots[k].value)

\* C38: no step of a pass changes a field of a position that is pending or
\* closed, or open without a Market row, and none appends a
\* PositionSnapshot row for such a position.
C38_OnlyOpenWithMarket ==
    [][\A id \in PositionIds :
          (\/ positions[id].status \in {"pending", "closed"}
           \/ MarketOf(positions[id], markets) = None)
          => /\ positions'[id] = positions[id]
             /\ \A k \in (Len(position_snapshots) + 1)
                             ..Len(position_snapshots') :
                   position_snapshots'[k].position_id # id]_vars

\* A pass with a feed changed one position beside an open position that
\* has no Market row.
C38_Witness ==
    /\ PassEnded
    /\ hist.feed # <<>>
    /\ \E id \in PositionIds :
          Before(id).status = "open" /\ MarketBefore(id) = None
    /\ \E id \in PositionIds : positions[id] # Before(id)
    /\ position_snapshots # <<>>

====
